---- MODULE Spec2Model ----
(***************************************************************************)
(* Model of monday-async's error handling: the transport client            *)
(* (utils/graphqlclient.py), the error aggregator ErrorInfo and the         *)
(* dispatch table ERROR_CODES (exceptions.py), and the query formatter      *)
(* graphql_parse (utils/utils.py).                                          *)
(*                                                                         *)
(* Python values are encoded as follows.                                    *)
(*   - an optional value (a missing dict key, or None) is <<>>; a present   *)
(*     value v is <<v>>;                                                    *)
(*   - a dict used as opaque payload (error_data) is a set of tags, {} is   *)
(*     the empty dict;                                                      *)
(*   - a text made of newline-terminated lines is the sequence of its       *)
(*     lines; other text is a string.                                       *)
(***************************************************************************)
EXTENDS Integers, Sequences, FiniteSets, TLC

VARIABLES
    in_response,   \* ErrorInfo: the decoded response handed to ErrorInfo(response, query)
    in_query,      \* ErrorInfo: the query text handed to it (a token sequence)
    info,          \* ErrorInfo: the constructed object (or the exception it raised)
    ipc,           \* ErrorInfo: "input" before construction, "done" after
    session,       \* client.session: <<>> (None) or <<id>>
    closed,        \* the set of session ids that have been closed
    task,          \* per task: where its _send / close_session call stands
    fn_args,       \* a call of an exception class: the class and its arguments
    fn_out,        \* the call: the instance it made (or the exception it raised)
    fn_pc          \* the call: "input" before it, "done" after

vars == <<in_response, in_query, info, ipc, session, closed, task, fn_args, fn_out, fn_pc>>

-----------------------------------------------------------------------------
(* Optional values and Python truthiness *)

Absent == <<>>

Some(v) == <<v>>

Has(o) == o # <<>>

GetOr(o, d) == IF o = <<>> THEN d ELSE o[1]

\* bool(x) for x an optional string: None and "" are falsy
TruthyStr(o) == o # <<>> /\ o[1] # ""

\* bool(x) for x an optional integer: None and 0 are falsy
TruthyInt(o) == o # <<>> /\ o[1] # 0

\* f"{x}" for x an optional string / integer
FmtStr(o) == IF o = <<>> THEN "None" ELSE o[1]

FmtInt(o) == IF o = <<>> THEN "None" ELSE ToString(o[1])

RECURSIVE Spaces(_)
Spaces(n) == IF n <= 0 THEN "" ELSE " " \o Spaces(n - 1)

-----------------------------------------------------------------------------
(* Bounds of the model *)

\* longest errors array of a response
MaxErrors == 3

\* largest line number a server reports in a location
MaxLine == 7

\* largest number written in a complexity message
MaxNumber == 2

\* longest query text, in tokens and line breaks
MaxQueryLen == 6

\* longest string, list and dict handed to monday_json_stringify
MaxItems == 2

\* number of concurrent callers of one client
MaxTasks == 2

\* number of distinct external sessions
MaxSessions == 1

-----------------------------------------------------------------------------
(* graphql_parse: parse(query) then print_ast.  A query text is a sequence  *)
(* of tokens: "{", "}", field names, and "NL" for a line break in the raw    *)
(* text.  The grammar is the selection-set core of GraphQL:                  *)
(*   Document ::= SelectionSet                                               *)
(*   SelectionSet ::= "{" Field+ "}"       Field ::= Name [SelectionSet]     *)

Names == {"boards", "id"}

NoNL(q) == SelectSeq(q, LAMBDA t : t # "NL")

\* a token may carry leading spaces (indentation); the lexer ignores them
Lexemes == Names \cup {"{", "}"}

Lexeme(tok) ==
    IF tok \in Lexemes THEN tok
    ELSE CHOOSE x \in Lexemes : \E k \in 1..(2 * MaxQueryLen) : tok = Spaces(k) \o x

\* the tokens the parser reads: line breaks and indentation are insignificant
Lex(q) == [i \in 1..Len(NoNL(q)) |-> Lexeme(NoNL(q)[i])]

\* nesting depth after each token of a NL-free token sequence
RECURSIVE DepthAfter(_, _)
DepthAfter(toks, i) ==
    IF i = 0 THEN 0
    ELSE DepthAfter(toks, i - 1)
         + (IF toks[i] = "{" THEN 1 ELSE IF toks[i] = "}" THEN -1 ELSE 0)

\* parse(query) succeeds
Parses(q) ==
    LET toks == Lex(q)
        n == Len(toks)
    IN  /\ n >= 3
        /\ toks[1] = "{"
        /\ toks[n] = "}"
        /\ DepthAfter(toks, n) = 0
        /\ \A i \in 1..(n - 1) : DepthAfter(toks, i) >= 1
        /\ \A i \in 2..n : toks[i] = "{" => toks[i - 1] \in Names
        /\ \A i \in 2..n : toks[i] = "}" => toks[i - 1] # "{"

\* print_ast: one field per line, two spaces of indentation per level
PrintAst(q) ==
    LET toks == Lex(q)
        n == Len(toks)
        IsOpen(i) == toks[i] = "{"
        Line(i) ==
            IF toks[i] = "}" THEN Spaces(2 * DepthAfter(toks, i)) \o "}"
            ELSE IF i < n /\ IsOpen(i + 1)
                 THEN Spaces(2 * DepthAfter(toks, i)) \o toks[i] \o " {"
                 ELSE Spaces(2 * DepthAfter(toks, i)) \o toks[i]
        Printed == {i \in 1..n : i = 1 \/ ~IsOpen(i)}
        RECURSIVE Emit(_)
        Emit(i) == IF i > n THEN <<>>
                   ELSE (IF i \in Printed THEN <<IF i = 1 THEN "{" ELSE Line(i)>> ELSE <<>>)
                        \o Emit(i + 1)
    IN  Emit(1)

\* graphql_parse(query) as the list graphql_parse(query).split("\n")
graphql_parse(q) == PrintAst(q)

\* a printer that indents each token further than the indentation it came with
graphql_parse_text_KeepsIndent(q) ==
    LET raw == NoNL(q)
        toks == Lex(q)
        n == Len(toks)
        IsOpen(i) == toks[i] = "{"
        RECURSIVE Emit(_)
        Emit(i) ==
            IF i > n THEN <<>>
            ELSE (IF i = 1 THEN <<"{">>
                  ELSE IF IsOpen(i) THEN <<>>
                  ELSE <<"NL", Spaces(2 * DepthAfter(toks, i)) \o raw[i]>>
                       \o (IF i < n /\ IsOpen(i + 1) THEN <<"{">> ELSE <<>>))
                 \o Emit(i + 1)
    IN  Emit(1)

\* graphql_parse(query) as a text: the tokens of the printed document, each line's first
\* token carrying the indentation, lines separated by "NL"
graphql_parse_text(q) ==
    LET toks == Lex(q)
        n == Len(toks)
        IsOpen(i) == toks[i] = "{"
        RECURSIVE Emit(_)
        Emit(i) ==
            IF i > n THEN <<>>
            ELSE (IF i = 1 THEN <<"{">>
                  ELSE IF IsOpen(i) THEN <<>>
                  ELSE <<"NL", Spaces(2 * DepthAfter(toks, i)) \o toks[i]>>
                       \o (IF i < n /\ IsOpen(i + 1) THEN <<"{">> ELSE <<>>))
                 \o Emit(i + 1)
    IN  Emit(1)

\* graphql_parse(query): the text, or the GraphQLSyntaxError parse raises
graphql_parse_call(q) ==
    IF Parses(q) THEN [exc |-> "none", text |-> graphql_parse_text(q)]
    ELSE [exc |-> "GraphQLSyntaxError"]

\* query.split("\n") of the raw text: tokens of a raw line are joined by one space
RECURSIVE RawLinesFrom(_, _, _)
RawLinesFrom(q, i, cur) ==
    IF i > Len(q) THEN <<cur>>
    ELSE IF q[i] = "NL" THEN <<cur>> \o RawLinesFrom(q, i + 1, "")
    ELSE RawLinesFrom(q, i + 1, IF cur = "" THEN q[i] ELSE cur \o " " \o q[i])

RawLines(q) == RawLinesFrom(q, 1, "")

-----------------------------------------------------------------------------
(* The exception hierarchy and the dispatch table *)

\* ERROR_CODES: error code -> exception class
ERROR_CODES ==
    [c \in {"INTERNAL_SERVER_ERROR", "GRAPHQL_VALIDATION_FAILED", "MaxConcurrencyExceeded",
            "RateLimitExceeded", "IpRestricted", "Unauthorized", "BadRequest",
            "missingRequiredPermissions", "ParseError", "ColumnValueException",
            "ComplexityException", "maxComplexityExceeded", "CorrectedValueException",
            "CreateBoardException", "DeleteLastGroupException", "FIELD_LIMIT_EXCEEDED",
            "InvalidArgumentException", "InvalidItemIdException", "InvalidBoardIdException",
            "InvalidColumnIdException", "InvalidUserIdException", "InvalidVersionException",
            "ItemNameTooLongException", "ItemsLimitationException", "JsonParseException",
            "RecordValidException", "ResourceNotFoundException", "UserUnauthorizedException"} |->
        CASE c = "INTERNAL_SERVER_ERROR" -> "InternalServerError"
          [] c = "GRAPHQL_VALIDATION_FAILED" -> "GraphQLValidationError"
          [] c = "MaxConcurrencyExceeded" -> "ConcurrencyLimitExceededError"
          [] c = "RateLimitExceeded" -> "RateLimitExceededError"
          [] c = "IpRestricted" -> "IpRestrictedError"
          [] c = "Unauthorized" -> "UnauthorizedError"
          [] c = "BadRequest" -> "BadRequestError"
          [] c = "missingRequiredPermissions" -> "MissingRequiredPermissionsError"
          [] c = "ParseError" -> "ParseError"
          [] c = "ColumnValueException" -> "ColumnValueError"
          [] c = "ComplexityException" -> "ComplexityError"
          [] c = "maxComplexityExceeded" -> "MaxComplexityExceededError"
          [] c = "CorrectedValueException" -> "CorrectedValueError"
          [] c = "CreateBoardException" -> "CreateBoardError"
          [] c = "DeleteLastGroupException" -> "DeleteLastGroupError"
          [] c = "FIELD_LIMIT_EXCEEDED" -> "FieldLimitExceededError"
          [] c = "InvalidArgumentException" -> "InvalidArgumentError"
          [] c = "InvalidItemIdException" -> "InvalidItemIdError"
          [] c = "InvalidBoardIdException" -> "InvalidBoardIdError"
          [] c = "InvalidColumnIdException" -> "InvalidColumnIdError"
          [] c = "InvalidUserIdException" -> "InvalidUserIdError"
          [] c = "InvalidVersionException" -> "InvalidVersionError"
          [] c = "ItemNameTooLongException" -> "ItemNameTooLongError"
          [] c = "ItemsLimitationException" -> "ItemsLimitationError"
          [] c = "JsonParseException" -> "JsonParseError"
          [] c = "RecordValidException" -> "RecordValidError"
          [] c = "ResourceNotFoundException" -> "ResourceNotFoundError"
          [] c = "UserUnauthorizedException" -> "UserUnauthorizedError"]

\* the classes deriving from MondayAPIError (itself included)
MondayAPIErrorClasses ==
    {"MondayAPIError", "MondayQueryError"} \cup {ERROR_CODES[c] : c \in DOMAIN ERROR_CODES}

\* a dict without keys, where an extensions dict is expected
EmptyExt == [code |-> Absent, status_code |-> Absent, error_data |-> Absent]

\* MondayAPIError.__init__ as called through the class cls; the empty dict that
\* replaces a missing path is written <<>>, like the empty list
MondayAPIError(cls, message, error_code, status_code, error_data, extensions, path) ==
    [exc |-> cls,
     message |-> message,
     error_code |-> error_code,
     status_code |-> status_code,
     error_data |-> GetOr(error_data, {}),
     extensions |-> GetOr(extensions, EmptyExt),
     path |-> GetOr(path, <<>>)]

\* MondayQueryError(message): the deprecated alias, every other field defaulted
MondayQueryError(message) ==
    MondayAPIError("MondayQueryError", message, Absent, Absent, Absent, Absent, Absent)

\* an exception that is not a MondayAPIError (KeyError, IndexError, ...)
OtherError(cls) == [exc |-> cls]

NoError == [exc |-> "none"]

\* the exception classes of exceptions.py other than the two roots
LeafClasses ==
    {"MondayQueryError", "GraphQLValidationError", "InternalServerError",
     "ConcurrencyLimitExceededError", "FieldLimitExceededError", "RateLimitExceededError",
     "IpRestrictedError", "UnauthorizedError", "BadRequestError",
     "MissingRequiredPermissionsError", "ParseError", "ColumnValueError", "ComplexityError",
     "MaxComplexityExceededError", "CorrectedValueError", "CreateBoardError",
     "DeleteLastGroupError", "InvalidArgumentError", "InvalidItemIdError",
     "InvalidBoardIdError", "InvalidColumnIdError", "InvalidUserIdError",
     "InvalidVersionError", "ItemNameTooLongError", "ItemsLimitationError", "JsonParseError",
     "RecordValidError", "ResourceNotFoundError", "UserUnauthorizedError"}

\* the class statements with ParseError deriving from GraphQLError
BaseOf_ParseErrorApart ==
    [cls \in LeafClasses \cup {"MondayAPIError", "GraphQLError"} |->
        IF cls \in {"MondayAPIError", "GraphQLError"} THEN "Exception"
        ELSE IF cls = "ParseError" THEN "GraphQLError"
        ELSE "MondayAPIError"]

\* the class statements: each class and the class it derives from
BaseOf ==
    [cls \in LeafClasses \cup {"MondayAPIError", "GraphQLError"} |->
        IF cls \in {"MondayAPIError", "GraphQLError"} THEN "Exception" ELSE "MondayAPIError"]

\* issubclass(cls, root)
RECURSIVE IsSubclass(_, _)
IsSubclass(cls, root) ==
    \/ cls = root
    \/ cls \in DOMAIN BaseOf /\ IsSubclass(BaseOf[cls], root)

\* the number of positional arguments the __init__ of a class accepts after self
MaxPositional(cls) ==
    IF cls = "GraphQLError" THEN 1
    ELSE IF cls = "DeleteLastGroupError" THEN 4
    ELSE 6

\* the message of a ComplexityError is a text of words separated by single spaces, written
\* as the sequence of its words; a number is written in decimal digits
NumberTexts == {ToString(n) : n \in 0..MaxNumber}

\* \d+ matches the word
IsNumber(word) == word \in NumberTexts

\* int(word) for a word of decimal digits
int(word) == CHOOSE n \in 0..MaxNumber : ToString(n) = word

\* the pattern 'budget remaining (\d+) out of \d+ reset in (\d+) seconds' matches the
\* words of message from word i on
pattern_at(message, i) ==
    /\ i + 9 <= Len(message)
    /\ message[i] = "budget"
    /\ message[i + 1] = "remaining"
    /\ IsNumber(message[i + 2])
    /\ message[i + 3] = "out"
    /\ message[i + 4] = "of"
    /\ IsNumber(message[i + 5])
    /\ message[i + 6] = "reset"
    /\ message[i + 7] = "in"
    /\ IsNumber(message[i + 8])
    /\ message[i + 9] = "seconds"

\* re.match in place of re.search: the pattern is tried at the start of the message only
re_search_AtStart(message) ==
    IF pattern_at(message, 1) THEN Some(1) ELSE Absent

\* re.search(pattern, message): the position of the leftmost match, or None
re_search(message) ==
    LET hits == {i \in 1..Len(message) : pattern_at(message, i)}
    IN  IF hits = {} THEN Absent
        ELSE Some(CHOOSE i \in hits : \A j \in hits : i <= j)

\* ComplexityError.__init__: the two derived attributes, then MondayAPIError.__init__
ComplexityError(message, error_code, status_code, error_data, extensions, path) ==
    LET match == re_search(message)
        base == MondayAPIError("ComplexityError", message, error_code, status_code, error_data,
                               extensions, path)
    IN  [exc |-> base.exc,
         message |-> base.message,
         error_code |-> base.error_code,
         status_code |-> base.status_code,
         error_data |-> base.error_data,
         extensions |-> base.extensions,
         path |-> base.path,
         remaining_complexity |->
             IF Has(match) THEN Some(int(message[match[1] + 2])) ELSE Absent,
         reset_in |->
             IF Has(match) THEN Some(int(message[match[1] + 8])) ELSE Absent]

\* cls(message, error_code, status_code, error_data, extensions, path): the instance, or
\* the TypeError of a call with more positional arguments than __init__ accepts
New(cls, message, error_code, status_code, error_data, extensions, path) ==
    IF MaxPositional(cls) < 6 THEN OtherError("TypeError")
    ELSE IF cls = "ComplexityError"
    THEN ComplexityError(message, error_code, status_code, error_data, extensions, path)
    ELSE MondayAPIError(cls, message, error_code, status_code, error_data, extensions, path)

-----------------------------------------------------------------------------
(* ErrorInfo *)

\* get_line answering a line number past the end with the last line
get_line_Clamped(query_by_lines, line_number) ==
    IF 1 <= line_number /\ query_by_lines # <<>>
    THEN IF line_number <= Len(query_by_lines)
         THEN ToString(line_number) \o ") " \o query_by_lines[line_number]
         ELSE ToString(line_number) \o ") " \o query_by_lines[Len(query_by_lines)]
    ELSE ""

\* ErrorInfo.get_line over self.query_by_lines
get_line(query_by_lines, line_number) ==
    IF 1 <= line_number /\ line_number <= Len(query_by_lines)
    THEN ToString(line_number) \o ") " \o query_by_lines[line_number]
    ELSE ""

\* ErrorInfo.create_location; line - 1 raises TypeError when line is None
create_location_raises(location) == ~Has(location.line)

\* create_location taking the reported line itself for the line after it
create_location_NextIsError(query_by_lines, location) ==
    [line |-> location.line,
     column |-> location.column,
     prev_line |-> get_line(query_by_lines, location.line[1] - 1),
     error_line |-> get_line(query_by_lines, location.line[1]),
     next_line |-> get_line(query_by_lines, location.line[1])]

create_location(query_by_lines, location) ==
    [line |-> location.line,
     column |-> location.column,
     prev_line |-> get_line(query_by_lines, location.line[1] - 1),
     error_line |-> get_line(query_by_lines, location.line[1]),
     next_line |-> get_line(query_by_lines, location.line[1] + 1)]

\* a list that drops a record equal to one it holds
append_record_Dedup(errors, record) ==
    IF \E i \in 1..Len(errors) : errors[i] = record THEN errors ELSE Append(errors, record)

\* ErrorInfo.add_error: self.errors.append(...)
append_record(errors, record) == Append(errors, record)

\* ErrorInfo.add_error: the record appended to self.errors
add_error(message, error_code, status_code, locations, error_data) ==
    [message |-> message,
     locations |-> locations,
     error_code |-> error_code,
     status_code |-> status_code,
     error_data |-> error_data]

\* err.get('extensions', {}) and the lookups in it
ExtOf(err) == GetOr(err.extensions, EmptyExt)

\* a string entry recorded as a bare message, without code and status
str_record_Bare(text, self_error_code, self_status_code) ==
    add_error(text, Absent, Absent, <<>>, Absent)

\* process_errors, a string entry: self.add_error(err, self.error_code, self.status_code)
str_record(text, self_error_code, self_status_code) ==
    add_error(text, self_error_code, self_status_code, <<>>, Absent)

\* the code of an entry replacing the code held so far whenever the entry has one
next_error_code_RecordWins(self_error_code, error_code) ==
    IF TruthyStr(error_code) THEN error_code ELSE self_error_code

\* 'if self.error_code is None' in place of 'if not self.error_code'
next_error_code_IsNone(self_error_code, error_code) ==
    IF self_error_code = Absent THEN error_code ELSE self_error_code

\* process_errors: if not self.error_code: self.error_code = error_code
next_error_code(self_error_code, error_code) ==
    IF ~TruthyStr(self_error_code) THEN error_code ELSE self_error_code

\* process_errors: the test that lets an entry set extensions, path and error_data
supplies_fields(error_code, self_error_code) == error_code = self_error_code

\* the loop body recording the aggregate's code and the response's status_code with
\* every structured entry, in place of the entry's own
process_entry_AggregateCode(self, err) ==
    IF self.exc # "none" THEN self
    ELSE IF err.kind = "str"
    THEN [self EXCEPT !.errors =
            append_record(@, str_record(err.text, self.error_code, self.status_code))]
    ELSE IF err.kind # "dict"
    THEN [self EXCEPT !.exc = "AttributeError"]
    ELSE IF \E i \in 1..Len(GetOr(err.locations, <<>>)) :
                create_location_raises(GetOr(err.locations, <<>>)[i])
    THEN [self EXCEPT !.exc = "TypeError"]
    ELSE
      LET message == GetOr(err.message, "")
          locs == GetOr(err.locations, <<>>)
          locations == [i \in 1..Len(locs) |-> create_location(self.query_by_lines, locs[i])]
          error_code == ExtOf(err).code
          error_data == GetOr(ExtOf(err).error_data, {})
          path == GetOr(err.path, <<>>)
          extensions == ExtOf(err)
          new_code == next_error_code(self.error_code, error_code)
          appended == append_record(self.errors,
                                    add_error(message, new_code, self.status_code, locations,
                                              Some(error_data)))
      IN  IF supplies_fields(error_code, new_code)
          THEN [self EXCEPT !.errors = appended,
                            !.error_code = new_code,
                            !.extensions = Some(extensions),
                            !.path = Some(path),
                            !.error_data = error_data]
          ELSE [self EXCEPT !.errors = appended,
                            !.error_code = new_code]

\* the loop body taking the aggregate's status_code, with the structured fields, from
\* the entry that supplies them
process_entry_RecordStatus(self, err) ==
    IF self.exc # "none" THEN self
    ELSE IF err.kind = "str"
    THEN [self EXCEPT !.errors =
            append_record(@, str_record(err.text, self.error_code, self.status_code))]
    ELSE IF err.kind # "dict"
    THEN [self EXCEPT !.exc = "AttributeError"]
    ELSE IF \E i \in 1..Len(GetOr(err.locations, <<>>)) :
                create_location_raises(GetOr(err.locations, <<>>)[i])
    THEN [self EXCEPT !.exc = "TypeError"]
    ELSE
      LET message == GetOr(err.message, "")
          locs == GetOr(err.locations, <<>>)
          locations == [i \in 1..Len(locs) |-> create_location(self.query_by_lines, locs[i])]
          error_code == ExtOf(err).code
          status_code == ExtOf(err).status_code
          error_data == GetOr(ExtOf(err).error_data, {})
          path == GetOr(err.path, <<>>)
          extensions == ExtOf(err)
          appended == append_record(self.errors,
                                    add_error(message, error_code, status_code, locations,
                                              Some(error_data)))
          new_code == next_error_code(self.error_code, error_code)
      IN  IF supplies_fields(error_code, new_code)
          THEN [self EXCEPT !.errors = appended,
                            !.error_code = new_code,
                            !.extensions = Some(extensions),
                            !.path = Some(path),
                            !.error_data = error_data,
                            !.status_code = status_code]
          ELSE [self EXCEPT !.errors = appended,
                            !.error_code = new_code]

\* one iteration of the loop of ErrorInfo.process_errors, on entry err
process_entry(self, err) ==
    IF self.exc # "none" THEN self
    ELSE IF err.kind = "str"
    THEN [self EXCEPT !.errors =
            append_record(@, str_record(err.text, self.error_code, self.status_code))]
    ELSE IF err.kind # "dict"
    THEN [self EXCEPT !.exc = "AttributeError"]
    ELSE IF \E i \in 1..Len(GetOr(err.locations, <<>>)) :
                create_location_raises(GetOr(err.locations, <<>>)[i])
    THEN [self EXCEPT !.exc = "TypeError"]
    ELSE
      LET message == GetOr(err.message, "")
          locs == GetOr(err.locations, <<>>)
          locations == [i \in 1..Len(locs) |-> create_location(self.query_by_lines, locs[i])]
          error_code == ExtOf(err).code
          status_code == ExtOf(err).status_code
          error_data == GetOr(ExtOf(err).error_data, {})
          path == GetOr(err.path, <<>>)
          extensions == ExtOf(err)
          appended == append_record(self.errors,
                                    add_error(message, error_code, status_code, locations,
                                              Some(error_data)))
          new_code == next_error_code(self.error_code, error_code)
      IN  IF supplies_fields(error_code, new_code)
          THEN [self EXCEPT !.errors = appended,
                            !.error_code = new_code,
                            !.extensions = Some(extensions),
                            !.path = Some(path),
                            !.error_data = error_data]
          ELSE [self EXCEPT !.errors = appended,
                            !.error_code = new_code]

\* ErrorInfo.process_errors over the first k entries of response['errors']
RECURSIVE process_errors_upto(_, _, _)
process_errors_upto(self, errs, k) ==
    IF k = 0 THEN self
    ELSE process_entry(process_errors_upto(self, errs, k - 1), errs[k])

process_errors(self, response) ==
    LET errs == GetOr(response.errors, <<>>)
    IN  process_errors_upto(self, errs, Len(errs))

\* ErrorInfo.format_single_error
format_single_error(message, error_code, status_code) ==
    <<message>>
    \o (IF TruthyStr(error_code) THEN <<"Error Code: " \o error_code[1]>> ELSE <<>>)
    \o (IF TruthyInt(status_code) THEN <<"Status Code: " \o ToString(status_code[1])>> ELSE <<>>)

\* ErrorInfo.format_location; ' ' * (column + 2) raises TypeError when column is None
format_location_raises(location) == ~Has(location.column)

\* format_location drawing the caret before the error line
format_location_CaretFirst(location) ==
    LET caret_line == Spaces(location.column[1] + 2) \o "^"
    IN  <<"Location: Line " \o FmtInt(location.line) \o ", Column " \o FmtInt(location.column)>>
        \o (IF location.error_line # ""
            THEN (IF location.prev_line # "" THEN <<"       " \o location.prev_line>> ELSE <<>>)
                 \o <<"       " \o caret_line>>
                 \o <<"       " \o location.error_line>>
                 \o (IF location.next_line # "" THEN <<"       " \o location.next_line>> ELSE <<>>)
            ELSE <<>>)

format_location(location) ==
    LET caret_line == Spaces(location.column[1] + 2) \o "^"
    IN  <<"Location: Line " \o FmtInt(location.line) \o ", Column " \o FmtInt(location.column)>>
        \o (IF location.error_line # ""
            THEN (IF location.prev_line # "" THEN <<"       " \o location.prev_line>> ELSE <<>>)
                 \o <<"       " \o location.error_line>>
                 \o <<"       " \o caret_line>>
                 \o (IF location.next_line # "" THEN <<"       " \o location.next_line>> ELSE <<>>)
            ELSE <<>>)

RECURSIVE format_locations(_)
format_locations(locations) ==
    IF locations = <<>> THEN <<>>
    ELSE format_location(Head(locations)) \o format_locations(Tail(locations))

\* ErrorInfo.format_error_details
format_error_details(error) ==
    <<error.message>>
    \o format_locations(error.locations)
    \o (IF TruthyStr(error.error_code) THEN <<"Error Code: " \o error.error_code[1]>> ELSE <<>>)
    \o (IF TruthyInt(error.status_code)
        THEN <<"Status Code: " \o ToString(error.status_code[1])>> ELSE <<>>)

\* the body of the loop of ErrorInfo.format_multiple_errors
RECURSIVE format_each_error(_)
format_each_error(errors) ==
    IF errors = <<>> THEN <<>>
    ELSE LET error == Head(errors)
         IN  <<"", error.message>>
             \o format_locations(error.locations)
             \o <<" - Error Code: " \o FmtStr(error.error_code)>>
             \o <<" - Status Code: " \o FmtInt(error.status_code)>>
             \o format_each_error(Tail(errors))

\* ErrorInfo.format_multiple_errors
format_multiple_errors(errors) ==
    <<"", "Multiple errors occurred:">> \o format_each_error(errors)

\* format_errors with the header for every non-empty list of records
format_errors_AlwaysMultiple(self) ==
    IF self.errors = <<>>
    THEN format_single_error(self.error_message, self.error_code, self.status_code)
    ELSE format_multiple_errors(self.errors)

\* ErrorInfo.format_errors
format_errors(self) ==
    IF self.errors = <<>>
    THEN format_single_error(self.error_message, self.error_code, self.status_code)
    ELSE IF Len(self.errors) = 1
    THEN format_error_details(self.errors[1])
    ELSE format_multiple_errors(self.errors)

format_errors_raises(self) ==
    \E i \in 1..Len(self.errors) : \E j \in 1..Len(self.errors[i].locations) :
        format_location_raises(self.errors[i].locations[j])

\* __init__ with the empty text for a missing error_message
ErrorInfoStart_EmptyDefault(response, query) ==
    [exc |-> "none",
     error_message |-> GetOr(response.error_message, ""),
     error_code |-> response.error_code,
     status_code |-> response.status_code,
     error_data |-> GetOr(response.error_data, {}),
     path |-> Absent,
     extensions |-> Absent,
     query_by_lines |-> graphql_parse(query),
     errors |-> <<>>]

\* ErrorInfo.__init__ up to the call of process_errors
ErrorInfoStart(response, query) ==
    [exc |-> "none",
     error_message |-> GetOr(response.error_message, "An error occurred"),
     error_code |-> response.error_code,
     status_code |-> response.status_code,
     error_data |-> GetOr(response.error_data, {}),
     path |-> Absent,
     extensions |-> Absent,
     query_by_lines |-> graphql_parse(query),
     errors |-> <<>>]

\* ErrorInfo.__init__: the constructed object, exc = "none", or the exception raised
ErrorInfo(response, query) ==
    IF response.kind # "dict" THEN OtherError("AttributeError")
    ELSE IF ~Parses(query) THEN OtherError("GraphQLSyntaxError")
    ELSE
      LET start == ErrorInfoStart(response, query)
          processed == process_errors(start, response)
      IN  IF processed.exc # "none" THEN OtherError(processed.exc)
          ELSE IF format_errors_raises(processed) THEN OtherError("TypeError")
          ELSE [exc |-> "none",
                error_message |-> processed.error_message,
                error_code |-> processed.error_code,
                status_code |-> processed.status_code,
                error_data |-> processed.error_data,
                path |-> processed.path,
                extensions |-> processed.extensions,
                query_by_lines |-> processed.query_by_lines,
                errors |-> processed.errors,
                formatted_message |-> format_errors(processed)]

-----------------------------------------------------------------------------
(* AsyncGraphQLClient._throw_on_error *)

\* seq[i] of Python, i an index from 0, negative indices counting from the end
PyIndexOk(seq, i) == -Len(seq) <= i /\ i < Len(seq)

PyAt(seq, i) == IF i >= 0 THEN seq[i + 1] ELSE seq[Len(seq) + i + 1]

\* the text one location adds to error_message, or the exception its lookups raise
throw_location(query_by_lines, location) ==
    IF ~Has(location.line) \/ ~Has(location.column) THEN [exc |-> "KeyError", text |-> ""]
    ELSE
      LET line_index == location.line[1]
          column_index == location.column[1]
          n == Len(query_by_lines)
      IN  IF line_index > 1 /\ ~PyIndexOk(query_by_lines, line_index - 2)
          THEN [exc |-> "IndexError", text |-> ""]
          ELSE IF ~PyIndexOk(query_by_lines, line_index - 1)
          THEN [exc |-> "IndexError", text |-> ""]
          ELSE IF line_index < n /\ ~PyIndexOk(query_by_lines, line_index)
          THEN [exc |-> "IndexError", text |-> ""]
          ELSE
            LET prev_line == IF line_index > 1
                             THEN ToString(line_index - 1) \o ") "
                                  \o PyAt(query_by_lines, line_index - 2)
                             ELSE ""
                current_line == ToString(line_index) \o ") "
                                \o PyAt(query_by_lines, line_index - 1)
                next_line == IF line_index < n
                             THEN ToString(line_index + 1) \o ") "
                                  \o PyAt(query_by_lines, line_index)
                             ELSE ""
            IN  [exc |-> "none",
                 text |-> "Location: Line " \o ToString(line_index) \o ", Column "
                          \o ToString(column_index) \o "\n"
                          \o prev_line \o "\n" \o current_line \o "\n" \o next_line \o "\n"]

RECURSIVE throw_locations(_, _)
throw_locations(query_by_lines, locations) ==
    IF locations = <<>> THEN [exc |-> "none", text |-> ""]
    ELSE LET first == throw_location(query_by_lines, Head(locations))
             rest == throw_locations(query_by_lines, Tail(locations))
         IN  IF first.exc # "none" THEN first
             ELSE IF rest.exc # "none" THEN rest
             ELSE [exc |-> "none", text |-> first.text \o rest.text]

\* the text one entry of response['errors'] adds to error_message
throw_entry(query_by_lines, err) ==
    IF err.kind = "str" THEN [exc |-> "none", text |-> err.text]
    ELSE IF err.kind # "dict" THEN [exc |-> "TypeError", text |-> ""]
    ELSE IF ~Has(err.message) THEN [exc |-> "KeyError", text |-> ""]
    ELSE
      LET locs == IF Has(err.locations)
                  THEN throw_locations(query_by_lines, err.locations[1])
                  ELSE [exc |-> "none", text |-> ""]
      IN  IF locs.exc # "none" THEN locs
          ELSE [exc |-> "none",
                text |-> "\n" \o err.message[1] \o "\n" \o locs.text
                         \o (IF Has(err.stack) THEN "Stack: " \o err.stack[1] ELSE "")]

RECURSIVE throw_entries(_, _)
throw_entries(query_by_lines, errs) ==
    IF errs = <<>> THEN [exc |-> "none", text |-> ""]
    ELSE LET first == throw_entry(query_by_lines, Head(errs))
             rest == throw_entries(query_by_lines, Tail(errs))
         IN  IF first.exc # "none" THEN first
             ELSE IF rest.exc # "none" THEN rest
             ELSE [exc |-> "none", text |-> first.text \o rest.text]

\* the response is a dict holding one of the keys that mark an error
IsErrorShape(response) ==
    /\ response.kind = "dict"
    /\ (Has(response.errors) \/ Has(response.error_message) \/ Has(response.error_code))

\* _throw_on_error taking status_code for a fourth key that marks an error
ThrowOnError_StatusIsError(response, query) ==
    IF response.kind = "dict" /\ Has(response.status_code)
    THEN MondayQueryError("\n" \o GetOr(response.error_message, "") \o "\n"
                          \o "  - Status Code: " \o FmtInt(response.status_code) \o "\n")
    ELSE NoError

\* _throw_on_error(response, query): NoError when it returns, else the exception raised
ThrowOnError(response, query) ==
    LET query_by_lines == RawLines(query)
        built ==
            IF ~IsErrorShape(response) THEN [exc |-> "none", text |-> ""]
            ELSE IF Has(response.errors)
            THEN throw_entries(query_by_lines, response.errors[1])
            ELSE IF Has(response.error_code)
            THEN IF ~Has(response.error_message) THEN [exc |-> "KeyError", text |-> ""]
                 ELSE [exc |-> "none",
                       text |-> "\n" \o response.error_message[1] \o "\n"
                                \o (IF Has(response.status_code)
                                    THEN "  - Status Code: " \o FmtInt(response.status_code) \o "\n"
                                    ELSE "")
                                \o "  - Error Code: " \o response.error_code[1] \o "\n"
                                \o (IF Has(response.error_data)
                                    THEN "  - Error Data: " \o ToString(response.error_data[1])
                                         \o "\n"
                                    ELSE "")]
            ELSE [exc |-> "none",
                  text |-> "\n" \o response.error_message[1] \o "\n"
                           \o (IF Has(response.status_code)
                               THEN "  - Status Code: " \o FmtInt(response.status_code) \o "\n"
                               ELSE "")]
    IN  IF built.exc # "none" THEN OtherError(built.exc)
        ELSE IF built.text # "" THEN MondayQueryError(built.text)
        ELSE NoError

-----------------------------------------------------------------------------
(* Inputs: responses, entries of an errors array, queries *)

StrEntry(text) ==
    [kind |-> "str", text |-> text, message |-> Absent, locations |-> Absent,
     extensions |-> Absent, path |-> Absent, stack |-> Absent]

DictEntry(message, locations, extensions, path) ==
    [kind |-> "dict", text |-> "", message |-> message, locations |-> locations,
     extensions |-> extensions, path |-> path, stack |-> Absent]

\* an errors entry that is neither a string nor a JSON object (a number, null, a list)
OtherEntry ==
    [kind |-> "other", text |-> "", message |-> Absent, locations |-> Absent,
     extensions |-> Absent, path |-> Absent, stack |-> Absent]

Location(line, column) == [line |-> line, column |-> column]

Ext(code, status_code, error_data) ==
    [code |-> code, status_code |-> status_code, error_data |-> error_data]

\* a decoded body that is a JSON object
DictResponse(data, errors, error_message, error_code, status_code, error_data) ==
    [kind |-> "dict", data |-> data, errors |-> errors, error_message |-> error_message,
     error_code |-> error_code, status_code |-> status_code, error_data |-> error_data]

\* a decoded body that is not a JSON object (a list, a string, null)
OtherResponse ==
    [kind |-> "other", data |-> Absent, errors |-> Absent, error_message |-> Absent,
     error_code |-> Absent, status_code |-> Absent, error_data |-> Absent]

\* sequences over S of length at most n
SeqUpTo(S, n) == UNION {[1..k -> S] : k \in 0..n}

\* the same document { boards { id } } written on one line and on five
QueryOneLine == <<"{", "boards", "{", "id", "}", "}">>

QueryFiveLines == <<"{", "NL", "boards", "{", "NL", "id", "NL", "}", "NL", "}">>

Queries == {QueryOneLine, QueryFiveLines}

\* the document { id }, three lines when formatted
QueryShort == <<"{", "NL", "id", "}">>

\* a text that is no GraphQL document: the selection set is never closed
QueryUnbalanced == <<"{", "boards">>

\* the query the callers of the client send
ClientQuery == QueryFiveLines

-----------------------------------------------------------------------------
(* The transport client: responses a server may send to one request *)

\* bodies without errors, error_message and error_code
PlainResponses ==
    {OtherResponse,
     DictResponse(Absent, Absent, Absent, Absent, Absent, Absent),
     DictResponse(Some("boards"), Absent, Absent, Absent, Absent, Absent),
     DictResponse(Absent, Absent, Absent, Absent, Some(500), Some({"d0"}))}

\* bodies with at least one of errors, error_message, error_code
ErrorResponses ==
    {DictResponse(Absent, Absent, Some("Internal server error"), Some("INTERNAL_SERVER_ERROR"),
                  Some(500), Absent),
     DictResponse(Absent, Absent, Absent, Some("NotARealCode"), Absent, Absent),
     DictResponse(Absent,
                  Some(<<DictEntry(Absent, Absent,
                                   Some(Ext(Some("ParseError"), Absent, Absent)), Absent)>>),
                  Absent, Absent, Absent, Absent),
     DictResponse(Absent,
                  Some(<<DictEntry(Some("A"), Some(<<Location(Some(2), Some(3))>>),
                                   Some(Ext(Some("ParseError"), Some(400), Absent)), Absent)>>),
                  Absent, Absent, Absent, Absent),
     DictResponse(Absent,
                  Some(<<DictEntry(Some("A"), Some(<<Location(Some(MaxLine), Some(3))>>),
                                   Some(Ext(Some("ParseError"), Some(400), Absent)), Absent)>>),
                  Absent, Absent, Absent, Absent)}

ClientResponses == PlainResponses \cup ErrorResponses

-----------------------------------------------------------------------------
(* The transport client: state and operations *)

Tasks == 1..MaxTasks

Sessions == 1..MaxSessions

\* a task: pc, the query q it sends, the session s it posts on or closes, the body
\* resp it received and the outcome out of its call
Idle == [pc |-> "idle", q |-> <<>>, s |-> Absent, resp |-> Absent, out |-> [kind |-> "none"]]

\* close_session returns None
ReturnedNone == [kind |-> "returned_none"]

Returned(value) == [kind |-> "returned", value |-> value]

Raised(e) == [kind |-> "raised", e |-> e]

\* the exceptions the except clause of _send names
CaughtBySend(e) == e.exc \in {"ClientError", "JSONDecodeError", "MondayQueryError"}

\* AsyncGraphQLClient.__init__ leaves session None
ClientInit ==
    /\ session = Absent
    /\ closed = {}
    /\ task = [t \in Tasks |-> Idle]

\* set_session(session): s is a session object or None
set_session(s) ==
    /\ session' = s
    /\ UNCHANGED <<closed, task>>

\* close_session up to its await: nothing to do without a session
close_session_start(t) ==
    /\ task[t].pc = "idle"
    /\ IF session # Absent
       THEN task' = [task EXCEPT ![t] = [Idle EXCEPT !.pc = "closing", !.s = session]]
       ELSE task' = [task EXCEPT ![t] = [Idle EXCEPT !.pc = "done", !.out = ReturnedNone]]
    /\ UNCHANGED <<session, closed>>

\* close_session that closes the session and leaves self.session as it is
close_session_finish_KeepsSession(t) ==
    /\ task[t].pc = "closing"
    /\ closed' = closed \cup {task[t].s[1]}
    /\ session' = session
    /\ task' = [task EXCEPT ![t] = [Idle EXCEPT !.pc = "done", !.out = ReturnedNone]]

\* close_session after await self.session.close(): the session is closed, then
\* self.session = None
close_session_finish(t) ==
    /\ task[t].pc = "closing"
    /\ closed' = closed \cup {task[t].s[1]}
    /\ session' = Absent
    /\ task' = [task EXCEPT ![t] = [Idle EXCEPT !.pc = "done", !.out = ReturnedNone]]

\* _send up to the await of session.post: the branch is chosen by self.session
send_start(t, q) ==
    /\ task[t].pc = "idle"
    /\ IF session = Absent
       THEN task' = [task EXCEPT ![t] = [Idle EXCEPT !.pc = "temp_post", !.q = q]]
       ELSE task' = [task EXCEPT ![t] = [Idle EXCEPT !.pc = "shared_post", !.q = q, !.s = session]]
    /\ UNCHANGED <<session, closed>>

\* the texts callers hand to execute_custom_query: a document and a non-document
CustomQueries == {QueryOneLine, QueryUnbalanced}

\* execute_custom_query handing the text to client.execute as it was given
execute_custom_query_Unparsed(t, custom_query) ==
    send_start(t, custom_query)

\* CustomResource.execute_custom_query: graphql_parse(custom_query), then
\* client.execute(parsed_query), which is _send up to the await of session.post
execute_custom_query(t, custom_query) ==
    LET parsed == graphql_parse_call(custom_query)
    IN  IF parsed.exc # "none"
        THEN /\ task[t].pc = "idle"
             /\ task' = [task EXCEPT ![t] = [Idle EXCEPT !.pc = "done", !.out = Raised(parsed)]]
             /\ UNCHANGED <<session, closed>>
        ELSE send_start(t, parsed.text)

\* where an exception e raised inside the request leaves _send
after_raise(t, resp, e) ==
    IF task[t].pc = "temp_post" /\ CaughtBySend(e)
    THEN [Idle EXCEPT !.pc = "except", !.resp = resp, !.out = Raised(e)]
    ELSE [Idle EXCEPT !.pc = "done", !.resp = resp, !.out = Raised(e)]

\* what _send does with the decoded body response_data of query q
send_result(response_data, q) ==
    LET thrown == ThrowOnError(response_data, q)
    IN  IF thrown.exc = "none" THEN Returned(response_data) ELSE Raised(thrown)

\* the body arrives: response.json(), _throw_on_error, return response_data
send_receive(t, response_data) ==
    /\ task[t].pc \in {"temp_post", "shared_post"}
    /\ LET res == send_result(response_data, task[t].q)
       IN  task' = [task EXCEPT ![t] =
                      IF res.kind = "returned"
                      THEN [Idle EXCEPT !.pc = "done", !.resp = Some(response_data), !.out = res]
                      ELSE after_raise(t, Some(response_data), res.e)]
    /\ UNCHANGED <<session, closed>>

\* the request or the decoding fails
send_fail(t, cls) ==
    /\ task[t].pc \in {"temp_post", "shared_post"}
    /\ task' = [task EXCEPT ![t] = after_raise(t, Absent, OtherError(cls))]
    /\ UNCHANGED <<session, closed>>

\* the except clause of _send: if self.session: await self.close_session()
send_except(t) ==
    /\ task[t].pc = "except"
    /\ IF session # Absent
       THEN task' = [task EXCEPT ![t] = [@ EXCEPT !.pc = "except_closing", !.s = session]]
       ELSE task' = [task EXCEPT ![t] = [@ EXCEPT !.pc = "done"]]
    /\ UNCHANGED <<session, closed>>

\* close_session called by the except clause returns; raise e
send_except_closed(t) ==
    /\ task[t].pc = "except_closing"
    /\ closed' = closed \cup {task[t].s[1]}
    /\ session' = Absent
    /\ task' = [task EXCEPT ![t] = [@ EXCEPT !.pc = "done", !.s = Absent]]

\* the caller has the result of its call and may call again
call_done(t) ==
    /\ task[t].pc = "done"
    /\ task' = [task EXCEPT ![t] = Idle]
    /\ UNCHANGED <<session, closed>>

-----------------------------------------------------------------------------------------------------------------------------------------------------
(* ErrorInfo(response, query), applied to one input *)

\* entries that differ in the code and in the structured fields they carry
CodeEntries ==
    {StrEntry("boom")}
    \cup {DictEntry(Some("A"), Absent, Some(Ext(c, Absent, Absent)), Absent) :
            c \in {Absent, Some(""), Some("ParseError"), Some("NotARealCode")}}
    \cup {DictEntry(Some("A"), Absent, Some(Ext(c, Some(403), Some({"d1"}))), Some(<<"boards">>)) :
            c \in {Absent, Some(""), Some("ParseError"), Some("NotARealCode")}}

CodeResponses ==
    {DictResponse(Absent, errs, Absent, c, st, ed) :
        errs \in {Absent} \cup {Some(e) : e \in SeqUpTo(CodeEntries, MaxErrors)},
        c \in {Absent, Some(""), Some("ParseError")},
        st \in {Absent, Some(500)},
        ed \in {Absent, Some({"d0"})}}

\* entries that differ in the text they render
FormatEntries ==
    {StrEntry("boom"),
     DictEntry(Absent, Absent, Absent, Absent),
     DictEntry(Some("A"), Some(<<Location(Some(2), Some(3))>>),
               Some(Ext(Some("ParseError"), Some(403), Absent)), Absent)}
    \cup {DictEntry(Some(m), Absent, x, Absent) :
            m \in {"A", "B"},
            x \in {Absent, Some(Ext(Some("ParseError"), Absent, Absent)),
                   Some(Ext(Absent, Some(403), Absent)),
                   Some(Ext(Some("ParseError"), Some(403), Absent))}}

FormatResponses ==
    {DictResponse(Absent, errs, m, c, st, Absent) :
        errs \in {Absent} \cup {Some(e) : e \in SeqUpTo(FormatEntries, MaxErrors)},
        m \in {Absent, Some("Top")},
        c \in {Absent, Some("NotARealCode")},
        st \in {Absent, Some(500)}}

\* line and column numbers a location may carry, in and out of the formatted query
LineNumbers == (0 - 1)..MaxLine

ColumnNumbers == {0, 3}

\* an entry with one location, alone or followed by a second entry
LocationResponses ==
    {DictResponse(Absent,
                  Some(<<DictEntry(Some("A"), Some(<<Location(l, c)>>), Absent, Absent)>> \o rest),
                  Absent, Absent, Absent, Absent) :
        l \in {Absent} \cup {Some(n) : n \in LineNumbers},
        c \in {Absent} \cup {Some(n) : n \in ColumnNumbers},
        rest \in {<<>>, <<StrEntry("boom")>>}}

LocationQueries == Queries \cup {QueryShort}

\* payloads and query texts outside the documented shapes
MalformedInputs ==
    {<<OtherResponse, QueryFiveLines>>,
     <<DictResponse(Absent, Some(<<OtherEntry>>), Absent, Absent, Absent, Absent), QueryFiveLines>>,
     <<DictResponse(Absent, Some(<<StrEntry("boom"), OtherEntry>>), Absent, Absent, Absent, Absent),
       QueryFiveLines>>,
     <<DictResponse(Absent, Absent, Some("Top"), Absent, Absent, Absent), QueryUnbalanced>>,
     <<DictResponse(Absent, Some(<<StrEntry("boom")>>), Absent, Absent, Absent, Absent),
       QueryUnbalanced>>}

\* the pairs (response, query) ErrorInfo is constructed from
InfoInputs ==
    ((CodeResponses \cup FormatResponses) \X {QueryFiveLines})
    \cup (LocationResponses \X LocationQueries)
    \cup MalformedInputs

\* no exception class is being called
FnIdle ==
    /\ fn_args = [cls |-> "none"]
    /\ fn_out = NoError
    /\ fn_pc = "idle"

InfoIdle ==
    /\ in_response = OtherResponse
    /\ in_query = <<>>
    /\ info = NoError
    /\ ipc = "idle"

\* the inputs of one construction
InfoInput ==
    /\ \E input \in InfoInputs :
          /\ in_response = input[1]
          /\ in_query = input[2]
    /\ info = NoError
    /\ ipc = "input"

\* info = ErrorInfo(response, query)
ErrorInfoInit ==
    /\ ipc = "input"
    /\ info' = ErrorInfo(in_response, in_query)
    /\ ipc' = "done"
    /\ UNCHANGED <<in_response, in_query, session, closed, task, fn_args, fn_out, fn_pc>>

InitInfo == ClientInit /\ InfoInput /\ FnIdle

NextInfo == ErrorInfoInit

SpecInfo == InitInfo /\ [][NextInfo]_vars

-----------------------------------------------------------------------------
(* An exception class called with the full set of fields *)

\* the classes raised for a response: the dispatched ones and the generic ones
RaisedClasses ==
    {ERROR_CODES[c] : c \in DOMAIN ERROR_CODES} \cup {"MondayAPIError", "MondayQueryError"}

\* the words 'budget remaining a out of b reset in c seconds'
BudgetText(a, b, c) ==
    <<"budget", "remaining", a, "out", "of", b, "reset", "in", c, "seconds">>

\* messages of a complexity error: with the budget text, alone, after or before other
\* words, twice; and without it
ComplexityMessages ==
    {BudgetText(a, b, c) : a \in NumberTexts, b \in NumberTexts, c \in NumberTexts}
    \cup {<<"Complexity">> \o BudgetText(a, "1", c) \o <<"later">> :
            a \in NumberTexts, c \in NumberTexts}
    \cup {<<"budget", "remaining">> \o BudgetText(a, "0", c) \o BudgetText(c, "0", a) :
            a \in NumberTexts, c \in NumberTexts}
    \cup {<<>>,
          <<"Complexity", "limit", "exceeded">>,
          <<"budget", "remaining", "some", "out", "of", "1", "reset", "in", "1", "seconds">>,
          <<"budget", "remaining", "1", "out", "of", "1", "reset", "in", "1">>,
          <<"budget", "remaining", "1", "of", "1", "reset", "in", "1", "seconds">>,
          <<"remaining", "1", "out", "of", "1", "reset", "in", "1", "seconds", "budget">>}

\* the calls cls(message, error_code, status_code, error_data, extensions, path)
ConstructorCalls ==
    [cls : RaisedClasses,
     message : {<<"A">>},
     error_code : {Absent, Some("ParseError")},
     status_code : {Absent, Some(403)},
     error_data : {Absent, Some({"d1"})},
     extensions : {Absent, Some(Ext(Some("ParseError"), Some(403), Some({"d1"})))},
     path : {Absent, Some(<<"boards">>)}]
    \cup
    [cls : {"ComplexityError"},
     message : ComplexityMessages,
     error_code : {Absent, Some("ComplexityException")},
     status_code : {Some(429)},
     error_data : {Absent},
     extensions : {Absent},
     path : {Absent}]

FnInput ==
    /\ fn_args \in ConstructorCalls
    /\ fn_out = NoError
    /\ fn_pc = "input"

\* fn_out = cls(message, error_code, status_code, error_data, extensions, path)
Construct ==
    /\ fn_pc = "input"
    /\ fn_out' = New(fn_args.cls, fn_args.message, fn_args.error_code, fn_args.status_code,
                     fn_args.error_data, fn_args.extensions, fn_args.path)
    /\ fn_pc' = "done"
    /\ UNCHANGED <<in_response, in_query, info, ipc, session, closed, task, fn_args>>

InitNew == ClientInit /\ InfoIdle /\ FnInput

NextNew == Construct

SpecNew == InitNew /\ [][NextNew]_vars

-----------------------------------------------------------------------------
(* monday_json_stringify.  A Python value is a record tagged by its type; a  *)
(* text is the sequence of its characters.                                   *)

PyNone == [t |-> "none"]

PyBool(b) == [t |-> "bool", b |-> b]

PyInt(n) == [t |-> "int", n |-> n]

\* a str, by its characters
PyStr(chars) == [t |-> "str", chars |-> chars]

\* a list of ints
PyList(items) == [t |-> "list", items |-> items]

\* a dict from str to str, by its items in insertion order: <<key, value>> pairs of
\* character sequences
PyDict(items) == [t |-> "dict", items |-> items]

\* bool(value)
Truthy(value) ==
    CASE value.t = "none" -> FALSE
      [] value.t = "bool" -> value.b
      [] value.t = "int" -> value.n # 0
      [] value.t = "str" -> value.chars # <<>>
      [] value.t = "list" -> value.items # <<>>
      [] value.t = "dict" -> value.items # <<>>

\* the characters of a JSON string literal for a str (ensure_ascii is irrelevant to the
\* characters of the model): quotes and backslashes are escaped
RECURSIVE json_escape(_)
json_escape(chars) ==
    IF chars = <<>> THEN <<>>
    ELSE (IF Head(chars) \in {"\"", "\\"} THEN <<"\\", Head(chars)>> ELSE <<Head(chars)>>)
         \o json_escape(Tail(chars))

json_string(chars) == <<"\"">> \o json_escape(chars) \o <<"\"">>

\* the items of a list or dict written with the item separator sep between them
RECURSIVE json_join(_, _)
json_join(texts, sep) ==
    IF texts = <<>> THEN <<>>
    ELSE IF Len(texts) = 1 THEN texts[1]
    ELSE texts[1] \o sep \o json_join(Tail(texts), sep)

\* json.dumps(value, separators=(item_sep, key_sep)) as characters
json_dumps(value, item_sep, key_sep) ==
    CASE value.t = "none" -> <<"n", "u", "l", "l">>
      [] value.t = "bool" -> IF value.b THEN <<"t", "r", "u", "e">>
                                        ELSE <<"f", "a", "l", "s", "e">>
      [] value.t = "int" -> <<ToString(value.n)>>
      [] value.t = "str" -> json_string(value.chars)
      [] value.t = "list" ->
            <<"[">>
            \o json_join([i \in 1..Len(value.items) |-> <<ToString(value.items[i])>>], item_sep)
            \o <<"]">>
      [] value.t = "dict" ->
            <<"{">>
            \o json_join([i \in 1..Len(value.items) |->
                             json_string(value.items[i][1]) \o key_sep
                             \o json_string(value.items[i][2])], item_sep)
            \o <<"}">>

\* monday_json_stringify(value)
monday_json_stringify(value) ==
    IF Truthy(value)
    THEN json_string(json_dumps(value, <<",">>, <<":">>))
    ELSE json_dumps(value, <<",", " ">>, <<":", " ">>)

\* the values handed to monday_json_stringify
StringifyChars == {"a", "\"", "\\"}

StringifyValues ==
    {PyNone, PyBool(TRUE), PyBool(FALSE)}
    \cup {PyInt(n) : n \in 0..MaxItems}
    \cup {PyStr(c) : c \in SeqUpTo(StringifyChars, MaxItems)}
    \cup {PyList(l) : l \in SeqUpTo(0..1, MaxItems)}
    \cup {PyDict(d) : d \in {x \in SeqUpTo({<<"k">>, <<"l">>} \X {<<"a">>, <<"\"">>, <<>>}, MaxItems) :
                                \A i, j \in 1..Len(x) : i # j => x[i][1] # x[j][1]}}

StringifyInput ==
    /\ \E v \in StringifyValues : fn_args = [value |-> v]
    /\ fn_out = NoError
    /\ fn_pc = "input"

\* fn_out = monday_json_stringify(value)
Stringify ==
    /\ fn_pc = "input"
    /\ fn_out' = [exc |-> "none", text |-> monday_json_stringify(fn_args.value)]
    /\ fn_pc' = "done"
    /\ UNCHANGED <<in_response, in_query, info, ipc, session, closed, task, fn_args>>

InitStringify == ClientInit /\ InfoIdle /\ StringifyInput

NextStringify == Stringify

SpecStringify == InitStringify /\ [][NextStringify]_vars

-----------------------------------------------------------------------------
(* graphql_parse applied to a query text, then to its own output *)

\* query texts: tokens and line breaks in any order, documents and non-documents
QueryTexts == SeqUpTo(Names \cup {"{", "}", "NL"}, MaxQueryLen)

\* fn_args: q is the text the caller wrote, text the argument of the latest call
FormatInput ==
    /\ \E q \in QueryTexts : fn_args = [q |-> q, text |-> q]
    /\ fn_out = NoError
    /\ fn_pc = "input"

\* fn_out = graphql_parse(q)
Format ==
    /\ fn_pc = "input"
    /\ fn_out' = graphql_parse_call(fn_args.text)
    /\ fn_pc' = "done"
    /\ UNCHANGED <<in_response, in_query, info, ipc, session, closed, task, fn_args>>

\* fn_out = graphql_parse(t) for t a text graphql_parse returned
Reformat ==
    /\ fn_pc \in {"done", "again"}
    /\ fn_out.exc = "none"
    /\ fn_args' = [fn_args EXCEPT !.text = fn_out.text]
    /\ fn_out' = graphql_parse_call(fn_out.text)
    /\ fn_pc' = "again"
    /\ UNCHANGED <<in_response, in_query, info, ipc, session, closed, task>>

InitFormat == ClientInit /\ InfoIdle /\ FormatInput

NextFormat == Format \/ Reformat

SpecFormat == InitFormat /\ [][NextFormat]_vars

-----------------------------------------------------------------------------
(* Specification of the transport client *)

Init == ClientInit /\ InfoIdle /\ FnIdle

Next ==
    \/ \E s \in {Absent} \cup {Some(x) : x \in Sessions} :
          set_session(s) /\ UNCHANGED <<in_response, in_query, info, ipc, fn_args, fn_out, fn_pc>>
    \/ \E t \in Tasks : close_session_start(t) /\ UNCHANGED <<in_response, in_query, info, ipc, fn_args, fn_out, fn_pc>>
    \/ \E t \in Tasks : close_session_finish(t) /\ UNCHANGED <<in_response, in_query, info, ipc, fn_args, fn_out, fn_pc>>
    \/ \E t \in Tasks :
          send_start(t, ClientQuery) /\ UNCHANGED <<in_response, in_query, info, ipc, fn_args, fn_out, fn_pc>>
    \/ \E t \in Tasks, r \in ClientResponses :
          send_receive(t, r) /\ UNCHANGED <<in_response, in_query, info, ipc, fn_args, fn_out, fn_pc>>
    \/ \E t \in Tasks, cls \in {"ClientError", "JSONDecodeError"} :
          send_fail(t, cls) /\ UNCHANGED <<in_response, in_query, info, ipc, fn_args, fn_out, fn_pc>>
    \/ \E t \in Tasks : send_except(t) /\ UNCHANGED <<in_response, in_query, info, ipc, fn_args, fn_out, fn_pc>>
    \/ \E t \in Tasks : send_except_closed(t) /\ UNCHANGED <<in_response, in_query, info, ipc, fn_args, fn_out, fn_pc>>
    \/ \E t \in Tasks : call_done(t) /\ UNCHANGED <<in_response, in_query, info, ipc, fn_args, fn_out, fn_pc>>

Spec == Init /\ [][Next]_vars

-----------------------------------------------------------------------------
(* Specification of CustomResource over its client: callers that go through  *)
(* execute_custom_query                                                      *)

NextCustom ==
    \/ \E s \in {Absent} \cup {Some(x) : x \in Sessions} :
          set_session(s) /\ UNCHANGED <<in_response, in_query, info, ipc, fn_args, fn_out, fn_pc>>
    \/ \E t \in Tasks, q \in CustomQueries :
          execute_custom_query(t, q)
          /\ UNCHANGED <<in_response, in_query, info, ipc, fn_args, fn_out, fn_pc>>
    \/ \E t \in Tasks, r \in ClientResponses :
          send_receive(t, r) /\ UNCHANGED <<in_response, in_query, info, ipc, fn_args, fn_out, fn_pc>>
    \/ \E t \in Tasks, cls \in {"ClientError", "JSONDecodeError"} :
          send_fail(t, cls) /\ UNCHANGED <<in_response, in_query, info, ipc, fn_args, fn_out, fn_pc>>
    \/ \E t \in Tasks : send_except(t) /\ UNCHANGED <<in_response, in_query, info, ipc, fn_args, fn_out, fn_pc>>
    \/ \E t \in Tasks : send_except_closed(t) /\ UNCHANGED <<in_response, in_query, info, ipc, fn_args, fn_out, fn_pc>>
    \/ \E t \in Tasks : call_done(t) /\ UNCHANGED <<in_response, in_query, info, ipc, fn_args, fn_out, fn_pc>>

SpecCustom == Init /\ [][NextCustom]_vars

-----------------------------------------------------------------------------
(* Properties of the transport client, checked under Spec *)

\* the body a finished or failing _send call of task t received
Received(t) == task[t].resp[1]

GotBody(t) == task[t].pc \in {"done", "except", "except_closing"} /\ Has(task[t].resp)

\* the primary error code of a response: the error_code ErrorInfo settles on
PrimaryCode(response) == ErrorInfo(response, ClientQuery).error_code

\* C1: for every response that is not a mapping, or is a mapping with none of the keys
\* errors, error_message, error_code, _throw_on_error raises nothing and _send returns
\* the decoded response to its caller unchanged.
C1_NoErrorSentinel ==
    \A t \in Tasks :
        (GotBody(t) /\ ~IsErrorShape(Received(t)))
            => (task[t].pc = "done" /\ task[t].out = Returned(Received(t)))

\* C1, its case: a call returned a mapping that carries status_code and error_data
\* but none of the three error keys
C1_Witness ==
    \E t \in Tasks :
        /\ task[t].pc = "done"
        /\ Has(task[t].resp)
        /\ Received(t).kind = "dict"
        /\ Has(Received(t).status_code)
        /\ ~IsErrorShape(Received(t))
        /\ task[t].out.kind = "returned"

\* the responses C2 speaks of: a mapping with at least one entry in errors, or a
\* top-level error_message, or a top-level error_code
IsErrorResponse(response) ==
    /\ response.kind = "dict"
    /\ \/ (Has(response.errors) /\ Len(response.errors[1]) >= 1)
       \/ Has(response.error_message)
       \/ Has(response.error_code)

\* C2: for every mapping response with at least one errors entry, an error_message or an
\* error_code, _throw_on_error raises exactly one exception, an instance of
\* MondayAPIError, also for partial payloads; never a secondary error such as KeyError.
C2_OneTypedException ==
    \A t \in Tasks :
        (GotBody(t) /\ IsErrorResponse(Received(t)))
            => (task[t].out.kind = "raised" /\ task[t].out.e.exc \in MondayAPIErrorClasses)

\* C3: when the primary error code of a response is a key of ERROR_CODES, the exception
\* _throw_on_error raises is an instance of the class ERROR_CODES maps that code to.
C3_DispatchKnownCodes ==
    \A t \in Tasks :
        (/\ GotBody(t)
         /\ IsErrorResponse(Received(t))
         /\ TruthyStr(PrimaryCode(Received(t)))
         /\ PrimaryCode(Received(t))[1] \in DOMAIN ERROR_CODES)
            => (/\ task[t].out.kind = "raised"
                /\ task[t].out.e.exc = ERROR_CODES[PrimaryCode(Received(t))[1]])

\* C4: when the primary error code is absent or is no key of ERROR_CODES, classification
\* never fails: whatever _throw_on_error raises is of the generic kind (MondayQueryError /
\* MondayAPIError), not a specific class and not a secondary error.
C4_GenericFallback ==
    \A t \in Tasks :
        (/\ GotBody(t)
         /\ IsErrorResponse(Received(t))
         /\ (~TruthyStr(PrimaryCode(Received(t)))
             \/ PrimaryCode(Received(t))[1] \notin DOMAIN ERROR_CODES)
         /\ task[t].out.kind = "raised")
            => task[t].out.e.exc \in {"MondayQueryError", "MondayAPIError"}

\* the lines of a message as one text, each line ended by a line break
RECURSIVE JoinLines(_)
JoinLines(lines) == IF lines = <<>> THEN "" ELSE Head(lines) \o "\n" \o JoinLines(Tail(lines))

\* the locations of the entries of a response, each with line and column
ResponseLocations(response) ==
    IF response.kind = "dict"
    THEN UNION {{GetOr(response.errors, <<>>)[i].locations[1][j] :
                    j \in 1..Len(GetOr(GetOr(response.errors, <<>>)[i].locations, <<>>))} :
                 i \in 1..Len(GetOr(response.errors, <<>>))}
    ELSE {}

\* the number of lines of the query text as the caller wrote it
RawTotal == Len(RawLines(ClientQuery))

\* the messages that keep the header of each location of the response and show no source
\* line for it: the rendering of ErrorInfo, or the entries followed by their headers
HeaderOnlyMessages(response) ==
    {JoinLines(ErrorInfo(response, ClientQuery).formatted_message),
     JoinLines(format_multiple_errors(ErrorInfo(response, ClientQuery).errors))}

\* C17: when an errors entry carries a location whose line exceeds the number of lines of
\* the query, _throw_on_error still raises the API exception for the response, never an
\* index error, and the message keeps the 'Location: Line L, Column C' text without source
\* lines for that location.
C17_OutOfRangeAtTransport ==
    \A t \in Tasks :
        (/\ GotBody(t)
         /\ ResponseLocations(Received(t)) # {}
         /\ \A loc \in ResponseLocations(Received(t)) :
                Has(loc.line) /\ Has(loc.column) /\ loc.line[1] > RawTotal)
            => /\ task[t].out.kind = "raised"
               /\ task[t].out.e.exc # "IndexError"
               /\ task[t].out.e.exc \in MondayAPIErrorClasses
               /\ task[t].out.e.message \in HeaderOnlyMessages(Received(t))

\* the messages whose source lines are those of graphql_parse(query): the rendering of
\* ErrorInfo, or the text _throw_on_error builds when given the formatted lines
FormattedLineMessages(response) ==
    {JoinLines(ErrorInfo(response, ClientQuery).formatted_message),
     throw_entries(graphql_parse(ClientQuery), response.errors[1]).text}

\* C18: the prev/error/next lines shown for a server-reported line N in the message of the
\* raised exception are lines N-1, N, N+1 of graphql_parse(query), the pretty-printed
\* text, not lines of the raw query string as the caller wrote it.
C18_LinesOfFormattedQuery ==
    \A t \in Tasks :
        (/\ GotBody(t)
         /\ ResponseLocations(Received(t)) # {}
         /\ \A loc \in ResponseLocations(Received(t)) :
                /\ Has(loc.line) /\ Has(loc.column)
                /\ 1 <= loc.line[1] /\ loc.line[1] <= Len(graphql_parse(ClientQuery)))
            => /\ task[t].out.kind = "raised"
               /\ task[t].out.e.exc \in MondayAPIErrorClasses
               /\ task[t].out.e.message \in FormattedLineMessages(Received(t))

\* C25: a new client has session None; set_session changes the session and nothing else;
\* when close_session returns, the session is None and the session it found has been
\* closed; close_session on a client without a session does nothing; at every point of
\* every sequence of calls.
C25_SessionLifecycle ==
    /\ session = Absent
    /\ [][/\ task' = task => (closed' = closed /\ session' \in {Absent} \cup {Some(x) : x \in Sessions})
          /\ \A t \in Tasks :
                /\ (task[t].pc = "closing" /\ task'[t].pc = "done") =>
                      /\ session' = Absent
                      /\ task[t].s[1] \in closed'
                      /\ task'[t].out = ReturnedNone
                /\ (task[t].pc = "idle" /\ task'[t].pc = "closing") =>
                      (session # Absent /\ task'[t].s = session /\ UNCHANGED <<session, closed>>)
                /\ (task[t].pc = "idle" /\ task'[t].pc = "done" /\ task'[t].out = ReturnedNone) =>
                      (session = Absent /\ UNCHANGED <<session, closed>>)]_vars

\* C25, its case: close_session has returned after a session was set: that session is
\* closed and the client has none
C25_Witness ==
    \E t \in Tasks :
        /\ task[t].pc = "done"
        /\ task[t].out = ReturnedNone
        /\ session = Absent
        /\ closed # {}

\* task t is inside a _send that found self.session None when it started
OnTemporarySession(t) == task[t].pc \in {"temp_post", "except", "except_closing"}

\* C28: with several calls running concurrently on one client, a _send that started
\* while client.session was None never closes or clears a session that another task
\* installed with set_session while that request was in flight, whether the request
\* succeeds or fails: no step of such a _send changes the client's session or closes one.
C28_NoCrossTaskClosing ==
    [][\A t \in Tasks :
          (OnTemporarySession(t) /\ task'[t] # task[t]) =>
              (session' = session /\ closed' = closed)]_vars

\* a request of task t is in flight
Posting(tk) == tk.pc \in {"temp_post", "shared_post"}

-----------------------------------------------------------------------------
(* Properties of ErrorInfo, checked under SpecInfo *)

\* the errors array handed to ErrorInfo
Errs == GetOr(in_response.errors, <<>>)

Built == ipc = "done" /\ info.exc = "none"

\* entry i is a structured entry with a non-empty extensions.code
Coded(i) == Errs[i].kind = "dict" /\ TruthyStr(ExtOf(Errs[i]).code)

CodeAt(i) == ExtOf(Errs[i]).code

\* entry i is the earliest entry with a non-empty code
FirstCoded(i) == Coded(i) /\ \A j \in 1..(i - 1) : ~Coded(j)

\* C5 as stated: ErrorInfo.error_code is the code of the first errors entry that carries
\* extensions.code; the top-level error_code is used only when no entry carries a code.
C5_RecordCodeFirst ==
    Built =>
        /\ \A i \in 1..Len(Errs) : FirstCoded(i) => info.error_code = CodeAt(i)
        /\ ((\A i \in 1..Len(Errs) : ~Coded(i)) /\ TruthyStr(in_response.error_code))
              => info.error_code = in_response.error_code

\* C5 amended: a non-empty top-level error_code takes precedence, ErrorInfo.error_code is
\* that code whatever the entries carry; only when the top-level error_code is absent or
\* empty is it the code of the first entry with a non-empty extensions.code, and it is
\* absent or empty when no entry has one either.
C5_TopLevelCodeFirst ==
    Built =>
        /\ TruthyStr(in_response.error_code) => info.error_code = in_response.error_code
        /\ ~TruthyStr(in_response.error_code) =>
              /\ \A i \in 1..Len(Errs) : FirstCoded(i) => info.error_code = CodeAt(i)
              /\ (\A i \in 1..Len(Errs) : ~Coded(i)) => ~TruthyStr(info.error_code)

\* C5, its case: a top-level code and an entry with another code
C5_Witness ==
    /\ Built
    /\ TruthyStr(in_response.error_code)
    /\ \E i \in 1..Len(Errs) : FirstCoded(i) /\ CodeAt(i) # in_response.error_code
    /\ info.error_code = in_response.error_code

\* C6: for a response with no top-level error_code, ErrorInfo.error_code is the code of
\* the earliest entry with a non-empty extensions.code: entries without a code before it
\* do not block it, and after it no later entry's code replaces it, at any point of the
\* loop of process_errors.
C6_FirstWins ==
    (Built /\ in_response.error_code = Absent) =>
        \A i \in 1..Len(Errs) :
            FirstCoded(i) =>
                /\ info.error_code = CodeAt(i)
                /\ \A k \in i..Len(Errs) :
                      process_errors_upto(ErrorInfoStart(in_response, in_query), Errs, k).error_code
                          = CodeAt(i)

\* C6, its case: an entry with an empty code, then a code, then another code
C6_Witness ==
    /\ Built
    /\ in_response.error_code = Absent
    /\ Len(Errs) = 3
    /\ Errs[1].kind = "dict" /\ ExtOf(Errs[1]).code = Some("")
    /\ Coded(2) /\ Coded(3) /\ CodeAt(2) # CodeAt(3)
    /\ info.error_code = CodeAt(2)

\* entry i is the first entry that carries the primary error code
Supplier(i) ==
    /\ Errs[i].kind = "dict"
    /\ TruthyStr(info.error_code)
    /\ CodeAt(i) = info.error_code
    /\ \A j \in 1..(i - 1) : ~(Errs[j].kind = "dict" /\ CodeAt(j) = info.error_code)

\* C7: error_data, extensions and path of ErrorInfo are exactly the values of the one
\* entry that supplied the primary error code, the first entry carrying that code, never
\* those of another entry, such as a later entry with the same code.
C7_FieldsOfSupplier ==
    Built =>
        \A i \in 1..Len(Errs) :
            Supplier(i) =>
                /\ info.extensions = Some(ExtOf(Errs[i]))
                /\ info.path = Some(GetOr(Errs[i].path, <<>>))
                /\ info.error_data = GetOr(ExtOf(Errs[i]).error_data, {})

\* the message entry i gives its record
MessageOf(i) == IF Errs[i].kind = "str" THEN Errs[i].text ELSE GetOr(Errs[i].message, "")

\* the texts that are messages of entries
MessageTexts == {"A", "B", "boom"}

IsMessageText(line) == line \in MessageTexts

\* C8: for an errors array of N entries (strings or structured objects), ErrorInfo.errors
\* has exactly N records, record i is built from entry i, identical entries stay separate
\* records, and the formatted message lists the record messages in input order.
C8_OrderPreserved ==
    Built =>
        /\ Len(info.errors) = Len(Errs)
        /\ \A i \in 1..Len(Errs) :
              /\ info.errors[i].message = MessageOf(i)
              /\ Errs[i].kind = "dict" =>
                    /\ info.errors[i].error_code = ExtOf(Errs[i]).code
                    /\ info.errors[i].status_code = ExtOf(Errs[i]).status_code
        /\ Len(Errs) >= 1 =>
              SelectSeq(info.formatted_message, IsMessageText)
                  = SelectSeq([i \in 1..Len(Errs) |-> MessageOf(i)], IsMessageText)

\* C8, its case: three entries, the first two identical, the third with another message
C8_Witness ==
    /\ Built
    /\ Len(Errs) = 3
    /\ Errs[1] = Errs[2]
    /\ MessageOf(1) = "B" /\ MessageOf(3) = "A"
    /\ Len(info.errors) = 3

\* C9 as stated: a plain-string entry yields a record with that string as message, no
\* locations, no error code and no status code, whatever the top-level
\* error_code/status_code are and whatever was processed before it.
C9_BareStringNoCode ==
    Built =>
        \A i \in 1..Len(Errs) :
            Errs[i].kind = "str" =>
                /\ info.errors[i].message = Errs[i].text
                /\ info.errors[i].locations = <<>>
                /\ ~TruthyStr(info.errors[i].error_code)
                /\ ~TruthyInt(info.errors[i].status_code)

\* C9 amended: a plain-string entry yields a record with that string as message and no
\* locations; its error code is the code ErrorInfo holds when the entry is processed (the
\* top-level error_code if non-empty, else the code of the first earlier entry with a
\* non-empty extensions.code, else none or empty) and its status code is the top-level
\* status_code, never the status of an earlier entry.
C9_StringInheritsAggregate ==
    Built =>
        \A i \in 1..Len(Errs) :
            Errs[i].kind = "str" =>
                /\ info.errors[i].message = Errs[i].text
                /\ info.errors[i].locations = <<>>
                /\ info.errors[i].status_code = in_response.status_code
                /\ TruthyStr(in_response.error_code)
                      => info.errors[i].error_code = in_response.error_code
                /\ ~TruthyStr(in_response.error_code) =>
                      /\ \A j \in 1..(i - 1) :
                            FirstCoded(j) => info.errors[i].error_code = CodeAt(j)
                      /\ (\A j \in 1..(i - 1) : ~Coded(j))
                            => ~TruthyStr(info.errors[i].error_code)

\* C9, its case: a string entry after a structured entry with its own code and status,
\* in a response with a top-level status_code
C9_Witness ==
    /\ Built
    /\ Len(Errs) >= 2
    /\ Coded(1) /\ TruthyInt(ExtOf(Errs[1]).status_code)
    /\ Errs[2].kind = "str"
    /\ TruthyInt(in_response.status_code)
    /\ in_response.status_code # ExtOf(Errs[1]).status_code
    /\ info.errors[2].error_code = CodeAt(1)
    /\ info.errors[2].status_code = in_response.status_code

Header == "Multiple errors occurred:"

\* C10: the rendering shape is chosen by the record count alone: with zero records the
\* message is built only from the top-level message, error code and status code; with one
\* record it never contains the 'Multiple errors occurred:' header; with two or more it
\* always starts with that header.
C10_ShapeByCount ==
    Built =>
        /\ Len(info.errors) = 0 =>
              info.formatted_message =
                  <<GetOr(in_response.error_message, "An error occurred")>>
                  \o (IF TruthyStr(in_response.error_code)
                      THEN <<"Error Code: " \o in_response.error_code[1]>> ELSE <<>>)
                  \o (IF TruthyInt(in_response.status_code)
                      THEN <<"Status Code: " \o ToString(in_response.status_code[1])>>
                      ELSE <<>>)
        /\ Len(info.errors) = 1 =>
              \A n \in 1..Len(info.formatted_message) : info.formatted_message[n] # Header
        /\ Len(info.errors) >= 2 =>
              /\ Len(info.formatted_message) >= 2
              /\ info.formatted_message[1] = ""
              /\ info.formatted_message[2] = Header

\* C10, its case: one record with a location, rendered without the header
C10_Witness ==
    /\ Built
    /\ Len(info.errors) = 1
    /\ info.errors[1].locations # <<>>
    /\ TruthyStr(in_response.error_message)
    /\ Len(info.formatted_message) > 3

\* the texts a code or a status takes in a rendered line
CodeTexts == {"", "None", "ParseError", "NotARealCode"}

StatusTexts == {"None", "0", "400", "403", "500"}

\* the code and status lines of the renderings with zero or one record
IsCodeLine(line) == line \in {"Error Code: " \o c : c \in CodeTexts}

IsStatusLine(line) == line \in {"Status Code: " \o c : c \in StatusTexts}

\* the code and status lines of the rendering with two or more records
IsEachCodeLine(line) == line \in {" - Error Code: " \o c : c \in CodeTexts}

IsEachStatusLine(line) == line \in {" - Status Code: " \o c : c \in StatusTexts}

\* the code and status entry i itself carries: those of its extensions; a string has none
OwnCode(i) == IF Errs[i].kind = "dict" THEN ExtOf(Errs[i]).code ELSE Absent

OwnStatus(i) == IF Errs[i].kind = "dict" THEN ExtOf(Errs[i]).status_code ELSE Absent

\* C11: when the errors array has exactly one record, the formatted message shows the
\* record's own error code and status code if the record carries them, and otherwise the
\* top-level error_code and status_code of the response.
C11_SingleRecordFallback ==
    (Built /\ Len(Errs) = 1) =>
        LET code == IF TruthyStr(OwnCode(1)) THEN OwnCode(1) ELSE in_response.error_code
            status == IF TruthyInt(OwnStatus(1)) THEN OwnStatus(1) ELSE in_response.status_code
        IN  /\ SelectSeq(info.formatted_message, IsCodeLine)
                  = (IF TruthyStr(code) THEN <<"Error Code: " \o code[1]>> ELSE <<>>)
            /\ SelectSeq(info.formatted_message, IsStatusLine)
                  = (IF TruthyInt(status) THEN <<"Status Code: " \o ToString(status[1])>>
                     ELSE <<>>)

\* the code and status record i holds: a structured entry's own, a string entry's as
\* process_errors recorded them
RecordCode(i) == IF Errs[i].kind = "dict" THEN OwnCode(i) ELSE info.errors[i].error_code

RecordStatus(i) == IF Errs[i].kind = "dict" THEN OwnStatus(i) ELSE info.errors[i].status_code

PlaceholderLines ==
    {"Error Code: None", "Error Code: ", "Status Code: None",
     " - Error Code: None", " - Error Code: ", " - Status Code: None"}

\* C13: in every rendering shape (zero, one or many records) an absent error code or
\* status code produces no 'Error Code' / 'Status Code' line in the formatted message; a
\* missing field is never rendered as a placeholder value.
C13_MissingOmitted ==
    Built =>
        \A n \in 1..Len(info.formatted_message) :
            info.formatted_message[n] \notin PlaceholderLines

\* C14: constructing ErrorInfo(response, query) and formatting it completes without
\* raising for every response and every query text, malformed or partial ones included.
C14_NeverRaises == ipc = "done" => info.exc = "none"

\* the lines of the formatted query ErrorInfo was given, and their number
FormattedLines == graphql_parse(in_query)

Total == Len(FormattedLines)

\* '<n>) <text of formatted line n>'
Display(n) == ToString(n) \o ") " \o FormattedLines[n]

\* the locations of the records: <<i, j>> is location j of record i
LocationIndices ==
    UNION {{<<i, j>> : j \in 1..Len(info.errors[i].locations)} : i \in 1..Len(info.errors)}

RecordLocation(ij) == info.errors[ij[1]].locations[ij[2]]

\* C15: for a formatted query of Total lines and a location with line >= 1,
\* create_location yields error_line non-empty iff 1 <= line <= Total, prev_line non-empty
\* iff line > 1 and line - 1 <= Total, next_line non-empty iff line < Total, and every
\* non-empty display string is '<n>) <text of formatted line n>' for its line number n.
C15_ContextPresence ==
    Built =>
        \A ij \in LocationIndices :
            LET loc == RecordLocation(ij)
                line == loc.line[1]
            IN  line >= 1 =>
                  /\ loc.error_line # "" <=> (1 <= line /\ line <= Total)
                  /\ loc.prev_line # "" <=> (line > 1 /\ line - 1 <= Total)
                  /\ loc.next_line # "" <=> line < Total
                  /\ loc.error_line # "" => loc.error_line = Display(line)
                  /\ loc.prev_line # "" => loc.prev_line = Display(line - 1)
                  /\ loc.next_line # "" => loc.next_line = Display(line + 1)

\* C15, its case: a location on the last line of the formatted query, with a line before
\* it and none after it
C15_Witness ==
    /\ Built
    /\ \E ij \in LocationIndices :
          /\ RecordLocation(ij).line = Some(Total)
          /\ Total = 3
          /\ RecordLocation(ij).prev_line = "2)   id"
          /\ RecordLocation(ij).error_line = "3) }"
          /\ RecordLocation(ij).next_line = ""

\* every location of the response carries an integer line and an integer column
LocationsComplete ==
    /\ in_response.kind = "dict"
    /\ \A i \in 1..Len(Errs) :
          /\ Errs[i].kind \in {"str", "dict"}
          /\ \A j \in 1..Len(GetOr(Errs[i].locations, <<>>)) :
                Has(Errs[i].locations[1][j].line) /\ Has(Errs[i].locations[1][j].column)

LocationHeader(loc) ==
    "Location: Line " \o ToString(loc.line[1]) \o ", Column " \o ToString(loc.column[1])

\* the lines format_location adds for a location whose error line is shown
SourceOrCaretLines ==
    LET lines == FormattedLines
    IN  {"       " \o ToString(n) \o ") " \o lines[n] : n \in 1..Len(lines)}
        \cup {"       " \o Spaces(c + 2) \o "^" : c \in ColumnNumbers}

\* the line of location ij lies outside the formatted query
OutOfRange(ij) == RecordLocation(ij).line[1] > Total \/ RecordLocation(ij).line[1] <= 0

\* C16: a location whose line is greater than the line count of the formatted query, or
\* is <= 0, never makes ErrorInfo raise and no line outside the line list is read; the
\* rendered location is the 'Location: Line L, Column C' header, without error line and
\* without caret line.
C16_OutOfRangeSafe ==
    (ipc = "done" /\ Parses(in_query) /\ LocationsComplete) =>
        /\ info.exc = "none"
        /\ \A ij \in LocationIndices :
              OutOfRange(ij) =>
                  /\ RecordLocation(ij).error_line = ""
                  /\ \E n \in 1..Len(info.formatted_message) :
                        info.formatted_message[n] = LocationHeader(RecordLocation(ij))
        /\ (LocationIndices # {} /\ \A ij \in LocationIndices : OutOfRange(ij)) =>
              LET shown == SourceOrCaretLines
              IN  \A n \in 1..Len(info.formatted_message) :
                      info.formatted_message[n] \notin shown

\* C16, its case: a location two lines past the end of the formatted query, rendered as
\* its header
C16_Witness ==
    /\ Built
    /\ \E ij \in LocationIndices :
          /\ RecordLocation(ij).line[1] >= Total + 2
          /\ \E n \in 1..Len(info.formatted_message) :
                info.formatted_message[n] = LocationHeader(RecordLocation(ij))

\* the caret line under column c: the margin of 7 characters, c + 2 spaces and '^'
CaretLine(c) == "       " \o Spaces(c + 2) \o "^"

\* what the claim expects for location ij, from the display strings of the location
ExpectedBlock(ij) ==
    LET loc == RecordLocation(ij)
    IN  <<LocationHeader(loc)>>
        \o (IF loc.error_line = "" THEN <<>>
            ELSE (IF loc.prev_line # "" THEN <<"       " \o loc.prev_line>> ELSE <<>>)
                 \o <<"       " \o loc.error_line, CaretLine(loc.column[1])>>
                 \o (IF loc.next_line # "" THEN <<"       " \o loc.next_line>> ELSE <<>>))

\* block stands in the message, its lines one after the other
OccursIn(block, message) ==
    \E start \in 0..(Len(message) - Len(block)) :
        \A k \in 1..Len(block) : message[start + k] = block[k]

\* the positions of the message that hold a caret line
CaretPositions ==
    {n \in 1..Len(info.formatted_message) :
        \E c \in ColumnNumbers : info.formatted_message[n] = CaretLine(c)}

\* C27: when a location's error line is present, format_location emits, in this order,
\* the 'Location: Line L, Column C' header, the previous line if present, the error line,
\* exactly one caret line made of the 7-character margin followed by (column + 2) spaces
\* and '^', then the next line if present; when the error line is absent no caret line
\* is emitted.
C27_LocationOrderAndCaret ==
    Built =>
        /\ \A ij \in LocationIndices : OccursIn(ExpectedBlock(ij), info.formatted_message)
        /\ Cardinality(CaretPositions)
              = Cardinality({ij \in LocationIndices : RecordLocation(ij).error_line # ""})

\* C27, its case: a location in the middle of the query at column 3, rendered with the
\* line before it, its own line, the caret under it and the line after it
C27_Witness ==
    /\ Built
    /\ \E ij \in LocationIndices :
          /\ RecordLocation(ij).column = Some(3)
          /\ RecordLocation(ij).prev_line # ""
          /\ RecordLocation(ij).error_line # ""
          /\ RecordLocation(ij).next_line # ""
          /\ OccursIn(<<"       " \o RecordLocation(ij).error_line, "            ^">>,
                      info.formatted_message)

\* C29: after ErrorInfo processes any errors array, ErrorInfo.status_code still equals
\* the response's top-level status_code (None when absent), even when the record that
\* supplied the primary error code carries its own extensions.status_code.
C29_StatusFromResponse == Built => info.status_code = in_response.status_code

\* C29, its case: the first coded entry supplied the aggregate's code and carries status
\* 403, the response carries 500, and the aggregate's status is 500
C29_Witness ==
    /\ Built
    /\ in_response.status_code = Some(500)
    /\ info.status_code = Some(500)
    /\ \E i \in 1..Len(Errs) :
          /\ FirstCoded(i)
          /\ info.error_code = CodeAt(i)
          /\ ExtOf(Errs[i]).status_code = Some(403)

\* C29, its other case: the response carries no status_code, a coded entry carries 403,
\* and the aggregate's status is None
C29_WitnessAbsent ==
    /\ Built
    /\ in_response.status_code = Absent
    /\ info.status_code = Absent
    /\ \E i \in 1..Len(Errs) : FirstCoded(i) /\ ExtOf(Errs[i]).status_code = Some(403)

\* no entry of the errors array has a code key in its extensions
NoEntryCarriesCode ==
    \A i \in 1..Len(Errs) : Errs[i].kind = "dict" => ~Has(ExtOf(Errs[i]).code)

\* C30: when the response has a top-level error_data and no errors entry carries an
\* extensions.code, ErrorInfo.error_data after processing is still the top-level
\* error_data, and extensions and path stay unset; a codeless entry never overwrites the
\* aggregate's structured fields.
C30_CodelessKeepsTopLevel ==
    (Built /\ Has(in_response.error_data) /\ NoEntryCarriesCode) =>
        /\ info.error_data = in_response.error_data[1]
        /\ info.extensions = Absent
        /\ info.path = Absent

\* C22: ErrorInfo.error_message equals the response's error_message when the response
\* has one, and is the literal 'An error occurred' only when the response has no
\* error_message and no record of the errors array carries a message.
C22_MessageFallback ==
    Built =>
        /\ Has(in_response.error_message) => info.error_message = in_response.error_message[1]
        /\ info.error_message = "An error occurred" =>
              /\ ~Has(in_response.error_message)
              /\ \A i \in 1..Len(Errs) : info.errors[i].message = ""

\* C22 amended: ErrorInfo.error_message equals the response's error_message when the
\* response has one and is the literal 'An error occurred' whenever it has none, whatever
\* messages the records carry; the literal is rendered in the formatted message only when
\* the errors array yields no record.
C22_LiteralWhenAbsent ==
    Built =>
        /\ Has(in_response.error_message) => info.error_message = in_response.error_message[1]
        /\ ~Has(in_response.error_message) => info.error_message = "An error occurred"
        /\ (\E n \in 1..Len(info.formatted_message) :
                info.formatted_message[n] = "An error occurred")
              => (~Has(in_response.error_message) /\ Len(info.errors) = 0)

\* C22, its case: no top-level error_message and a record with a message of its own
C22_Witness ==
    /\ Built
    /\ ~Has(in_response.error_message)
    /\ Len(info.errors) >= 1
    /\ info.errors[1].message = "A"
    /\ info.error_message = "An error occurred"
    /\ info.formatted_message[1] = "A"

-----------------------------------------------------------------------------
(* Properties of the exception classes, checked under SpecNew *)

\* C19: for every class C that is a value of ERROR_CODES, constructing C with (message,
\* error_code, status_code, error_data, extensions, path) succeeds and the instance
\* exposes those values as its attributes (an omitted dict as the empty one).
C19_FullFieldSet ==
    (fn_pc = "done" /\ \E c \in DOMAIN ERROR_CODES : ERROR_CODES[c] = fn_args.cls) =>
        /\ fn_out.exc = fn_args.cls
        /\ fn_out.message = fn_args.message
        /\ fn_out.error_code = fn_args.error_code
        /\ fn_out.status_code = fn_args.status_code
        /\ fn_out.error_data = GetOr(fn_args.error_data, {})
        /\ fn_out.extensions = GetOr(fn_args.extensions, EmptyExt)
        /\ fn_out.path = GetOr(fn_args.path, <<>>)

\* C20: no two keys of ERROR_CODES map to the same class, and every mapped class is a
\* subclass of MondayAPIError, so a handler for MondayAPIError catches every exception
\* made from a dispatched class.
C20_DispatchOneToOne ==
    /\ \A a, b \in DOMAIN ERROR_CODES : a # b => ERROR_CODES[a] # ERROR_CODES[b]
    /\ \A c \in DOMAIN ERROR_CODES : IsSubclass(ERROR_CODES[c], "MondayAPIError")
    /\ (fn_pc = "done" /\ fn_out.exc \in {ERROR_CODES[c] : c \in DOMAIN ERROR_CODES})
          => IsSubclass(fn_out.exc, "MondayAPIError")

\* C20, its case: an instance of the class dispatched for 'ParseError'
C20_Witness ==
    /\ fn_pc = "done"
    /\ fn_args.cls = ERROR_CODES["ParseError"]
    /\ fn_out.exc = "ParseError"
    /\ IsSubclass(fn_out.exc, "MondayAPIError")
    /\ ~IsSubclass("GraphQLError", "MondayAPIError")

\* the message holds 'budget remaining a out of b reset in c seconds' from word i on
OccursAt(message, i, a, b, c) ==
    /\ i + 9 <= Len(message)
    /\ SubSeq(message, i, i + 9) = BudgetText(a, b, c)

Occurrences(message) ==
    {o \in (1..Len(message)) \X NumberTexts \X NumberTexts \X NumberTexts :
        OccursAt(message, o[1], o[2], o[3], o[4])}

\* the number a word of digits denotes
NumberOf(word) == CHOOSE n \in 0..MaxNumber : ToString(n) = word

\* C21: constructing ComplexityError always succeeds; if the message contains 'budget
\* remaining <a> out of <b> reset in <c> seconds' then remaining_complexity = a and
\* reset_in = c (of its first occurrence), otherwise both are None; in every case
\* remaining_complexity is None iff reset_in is None.
C21_ComplexityParsing ==
    (fn_pc = "done" /\ fn_args.cls = "ComplexityError") =>
        /\ fn_out.exc = "ComplexityError"
        /\ fn_out.message = fn_args.message
        /\ \A o \in Occurrences(fn_args.message) :
              (\A p \in Occurrences(fn_args.message) : o[1] <= p[1]) =>
                  /\ fn_out.remaining_complexity = Some(NumberOf(o[2]))
                  /\ fn_out.reset_in = Some(NumberOf(o[4]))
        /\ Occurrences(fn_args.message) = {} =>
              /\ fn_out.remaining_complexity = Absent
              /\ fn_out.reset_in = Absent
        /\ fn_out.remaining_complexity = Absent <=> fn_out.reset_in = Absent

\* C21, its case: the budget text after another word, with 0 remaining and reset in 2
C21_Witness ==
    /\ fn_pc = "done"
    /\ fn_args.cls = "ComplexityError"
    /\ Len(fn_args.message) > 10
    /\ fn_args.message[1] = "Complexity"
    /\ fn_out.remaining_complexity = Some(0)
    /\ fn_out.reset_in = Some(2)

-----------------------------------------------------------------------------
(* Properties of graphql_parse, checked under SpecFormat *)

-----------------------------------------------------------------------------
(* Properties of monday_json_stringify, checked under SpecStringify *)

\* the text is a JSON string literal: it stands between quotes, and every quote and
\* backslash inside is escaped
RECURSIVE WellEscaped(_)
WellEscaped(chars) ==
    IF chars = <<>> THEN TRUE
    ELSE IF Head(chars) = "\\"
         THEN Len(chars) >= 2 /\ chars[2] \in {"\"", "\\"} /\ WellEscaped(Tail(Tail(chars)))
         ELSE Head(chars) # "\"" /\ WellEscaped(Tail(chars))

IsStringLiteral(text) ==
    /\ Len(text) >= 2
    /\ text[1] = "\""
    /\ text[Len(text)] = "\""
    /\ WellEscaped(SubSeq(text, 2, Len(text) - 1))

\* json.loads of the inside of a string literal: the characters it stands for
RECURSIVE Unescape(_)
Unescape(chars) ==
    IF chars = <<>> THEN <<>>
    ELSE IF Head(chars) = "\\" THEN <<chars[2]>> \o Unescape(Tail(Tail(chars)))
    ELSE <<Head(chars)>> \o Unescape(Tail(chars))

\* the JSON texts that decode to value: with and without spaces after the separators
JsonTextsOf(value) ==
    {json_dumps(value, <<",">>, <<":">>), json_dumps(value, <<",", " ">>, <<":", " ">>)}

\* C26: for every non-None value v, an empty dict or list included, the result of
\* monday_json_stringify is a JSON string literal whose decoded content is itself JSON
\* text that decodes to v; for None the result is the bare literal null.
C26_DoubleEncoded ==
    fn_pc = "done" =>
        IF fn_args.value = PyNone
        THEN fn_out.text = <<"n", "u", "l", "l">>
        ELSE /\ IsStringLiteral(fn_out.text)
             /\ Unescape(SubSeq(fn_out.text, 2, Len(fn_out.text) - 1))
                    \in JsonTextsOf(fn_args.value)

====
